---- MODULE Spec2Model ----
(***************************************************************************)
(* Model of the v-sheet persistence service (server/app.py): a directory   *)
(* of one JSON file per spreadsheet (FILES_DIR), one metadata file holding *)
(* the recent pointer (METADATA_FILE), and the Flask handlers over them.   *)
(* Each request handler runs to completion as one action.                   *)
(***************************************************************************)
EXTENDS Integers, Sequences, FiniteSets, TLC

\* ------------------------------------------------------------------ bounds
\* Number of identifiers uuid4 can hand out in the model.
MaxIds == 3
\* Largest reading of the clock (datetime.utcnow), in ticks.
MaxClock == 2
\* Ticks per second: the scaled-down number of microseconds in a second.
TicksPerSec == 2
\* Number of requests in a history that starts from the empty store.
MaxSteps == 4
\* Number of requests in a history that starts from an arbitrary store.
StoreSteps == 1
\* Clock reading at which an arbitrary initial store is observed.
InitClock == 1

Ids == 1..MaxIds
\* None / no identifier.
NoId == 0

\* ------------------------------------------------------------ file contents
DefaultName == "Untitled Spreadsheet"
FirstName == "My First Spreadsheet"
\* The default `data` payload of a new document (cells, widths, heights, metadata).
DefaultData == "default"

\* No file under this name.
Absent == [kind |-> "absent", id |-> NoId, name |-> "", created |-> 0, modified |-> 0, data |-> ""]
\* A file whose content json.load rejects.
Corrupt == [kind |-> "corrupt", id |-> NoId, name |-> "", created |-> 0, modified |-> 0, data |-> ""]
\* A file holding valid JSON that is not an object (a list, a string, null).
NonObject == [kind |-> "nonobj", id |-> NoId, name |-> "", created |-> 0, modified |-> 0, data |-> ""]
\* A file holding a JSON object that has no 'name' key.
MissingField(i, t) == [kind |-> "nofield", id |-> i, name |-> "", created |-> t, modified |-> t, data |-> DefaultData]
\* The file_data dictionary of a spreadsheet document.
Doc(i, n, c, m, d) == [kind |-> "doc", id |-> i, name |-> n, created |-> c, modified |-> m, data |-> d]

\* No metadata file.
NoMeta == [kind |-> "absent", recentFileId |-> NoId, lastAccessed |-> 0]
\* A metadata file whose content json.load rejects.
CorruptMeta == [kind |-> "corrupt", recentFileId |-> NoId, lastAccessed |-> 0]

\* ---------------------------------------------------------------- requests
\* A request body: valid = it parses as JSON; the fields it carries. hasExtra:
\* it also carries the keys id, created and modified.
Body(v, hn, n, hd, d) ==
    [valid |-> v, hasName |-> hn, name |-> n, hasData |-> hd, data |-> d,
     hasExtra |-> FALSE, id |-> NoId, created |-> 0, modified |-> 0]
EmptyBody == Body(TRUE, FALSE, "", FALSE, "")
MalformedBody == Body(FALSE, FALSE, "", FALSE, "")
PostBodies == {EmptyBody, Body(TRUE, TRUE, "Budget", FALSE, ""), MalformedBody}
\* A body with a name and with id, created and modified of its own: another
\* identifier and a time the server's clock has not reached.
ExtraBody ==
    [Body(TRUE, TRUE, "Budget", FALSE, "") EXCEPT
        !.hasExtra = TRUE, !.id = MaxIds + 1, !.created = MaxClock + 1, !.modified = MaxClock + 1]
PutBodies ==
    {EmptyBody, Body(TRUE, TRUE, "Budget", FALSE, ""), Body(TRUE, FALSE, "", TRUE, "D1"),
     Body(TRUE, TRUE, "Budget", TRUE, "D1"), MalformedBody, ExtraBody}

VARIABLES
    files,      \* FILES_DIR: identifier -> content of <id>.json
    meta,       \* METADATA_FILE
    now,        \* the clock read by datetime.utcnow()
    issued,     \* identifiers uuid4 has returned or that are otherwise in use
    deleted,    \* identifiers whose file a DELETE request has removed
    budget,     \* requests still to come
    last,       \* the last request and its response
    files0,     \* FILES_DIR before the last request
    meta0,      \* METADATA_FILE before the last request
    procs       \* the requests being served concurrently, step by step

vars == <<files, meta, now, issued, deleted, budget, last, files0, meta0, procs>>

\* ------------------------------------------------------------- timestamps
\* datetime.isoformat() + 'Z': the seconds, then ".ffffff" only when the
\* microsecond part is not 0.  Timestamps are compared as these strings; IsoKey
\* is the rank of the string of clock reading t in that order ('Z' sorts after
\* '.', so a reading with microsecond 0 sorts after every other of its second).
IsoKey(t) ==
    LET s == t \div TicksPerSec
        u == t % TicksPerSec
    IN  s * TicksPerSec + (IF u = 0 THEN TicksPerSec - 1 ELSE u - 1)

\* Readings a later call of datetime.utcnow() in the same handler can return.
LaterClock(t) == {u \in t..(t + 1) : u <= MaxClock}

\* ---------------------------------------------------------- FileManager
\* file_path.exists()
Exists(fs, i) == fs[i].kind # "absent"

ExistingIds(fs) == {i \in Ids : Exists(fs, i)}

\* The files get_all_files can load: a JSONDecodeError or a KeyError skips the file.
Readable(fs) == {i \in Ids : fs[i].kind = "doc"}

\* get_all_files: file_data['id'] on a value that is no object raises
\* TypeError, which its except clause does not catch.
ListingRaises(fs) == \E i \in Ids : fs[i].kind = "nonobj"

ListEntry(d) == [id |-> d.id, name |-> d.name, modified |-> d.modified]

\* Variant: the sort without reverse=True.
SortedOrdersAscending(fs) ==
    LET R == Readable(fs)
        n == Cardinality(R)
    IN  {p \in [1..n -> R] :
            /\ \A j, k \in 1..n : j # k => p[j] # p[k]
            /\ \A j \in 1..(n - 1) : IsoKey(fs[p[j]].modified) <= IsoKey(fs[p[j + 1]].modified)}

\* sorted(files, key=modified, reverse=True) over FILES_DIR.glob: the orders
\* of the readable files that descend in `modified`; glob's order decides ties.
SortedOrders(fs) ==
    LET R == Readable(fs)
        n == Cardinality(R)
    IN  {p \in [1..n -> R] :
            /\ \A j, k \in 1..n : j # k => p[j] # p[k]
            /\ \A j \in 1..(n - 1) : IsoKey(fs[p[j]].modified) >= IsoKey(fs[p[j + 1]].modified)}

\* FileManager.get_all_files: the listings it can return.
GetAllFiles(fs) ==
    {[j \in 1..Cardinality(Readable(fs)) |-> ListEntry(fs[p[j]])] : p \in SortedOrders(fs)}

\* Variant: the name passed in is dropped for the default.
NewDocumentUnnamed(file_id, name, timestamp) ==
    Doc(file_id, DefaultName, timestamp, timestamp, DefaultData)

\* FileManager.create_file: the document written under a new identifier.
NewDocument(file_id, name, timestamp) == Doc(file_id, name, timestamp, timestamp, DefaultData)

\* Variant: an identifier is free again once its file is gone.
FreshIdsReused ==
    {i \in Ids \ ExistingIds(files) : \A j \in Ids \ ExistingIds(files) : i <= j}

\* uuid.uuid4(): an identifier not in use.  No handler compares or orders
\* identifiers, so they are interchangeable and the least unused one stands
\* for any of them.
FreshIds == {i \in Ids \ issued : \A j \in Ids \ issued : i <= j}

\* Variant: the write of the metadata file is lost.
UpdateRecentFileLost(file_id, t) == meta

\* FileManager.update_recent_file: the metadata written.
UpdateRecentFile(file_id, t) == [kind |-> "ok", recentFileId |-> file_id, lastAccessed |-> t]

\* FileManager.get_recent_file_id: None when the file is missing or unparsable.
GetRecentFileId(m) == IF m.kind = "ok" THEN m.recentFileId ELSE NoId

\* Variant: the pointer is never trusted, the listing always decides.
RecentIsValidNever(fs, recent_file_id) == FALSE

\* Variant: the pointer is trusted without looking for its file.
RecentIsValidUnverified(fs, recent_file_id) == recent_file_id # NoId

\* get_recent_file: the pointer is used only if its file still exists.
RecentIsValid(fs, recent_file_id) == recent_file_id # NoId /\ Exists(fs, recent_file_id)

\* Variant: a replace, fields missing from the body fall back to the defaults.
MergeUpdateReplace(d, body, t) ==
    [d EXCEPT !.modified = t,
              !.name = IF body.hasName THEN body.name ELSE DefaultName,
              !.data = IF body.hasData THEN body.data ELSE DefaultData]

\* Variant: file_data.update(update_data), every key of the body is taken.
MergeUpdateFromBody(d, body, t) ==
    [d EXCEPT !.modified = IF body.hasExtra THEN body.modified ELSE t,
              !.id = IF body.hasExtra THEN body.id ELSE @,
              !.created = IF body.hasExtra THEN body.created ELSE @,
              !.name = IF body.hasName THEN body.name ELSE @,
              !.data = IF body.hasData THEN body.data ELSE @]

\* Variant: the update stamps `created` as well.
MergeUpdateRestamps(d, body, t) ==
    [d EXCEPT !.modified = t,
              !.created = t,
              !.name = IF body.hasName THEN body.name ELSE @,
              !.data = IF body.hasData THEN body.data ELSE @]

\* update_file: the merge of the request body into the loaded document.
MergeUpdate(d, body, t) ==
    [d EXCEPT !.kind = IF body.hasName THEN "doc" ELSE @,
              !.modified = t,
              !.name = IF body.hasName THEN body.name ELSE @,
              !.data = IF body.hasData THEN body.data ELSE @]

\* Variant: no cascade, the delete leaves the metadata file as it is.
DeleteCascadeNone(m, recent, file_id, lst, t) == m

\* Variant: the metadata file is kept when no document remains.
DeleteCascadeKeepsPointer(m, recent, file_id, lst, t) ==
    IF recent = file_id /\ Len(lst) > 0 THEN UpdateRecentFile(lst[1].id, t) ELSE m

\* Variant: the cascade runs whatever the pointer named.
DeleteCascadeAlways(m, recent, file_id, lst, t) ==
    IF Len(lst) > 0 THEN UpdateRecentFile(lst[1].id, t) ELSE NoMeta

\* delete_file: the metadata after the file is gone; lst is the listing of
\* what remains, recent the identifier read before the unlink.
DeleteCascade(m, recent, file_id, lst, t) ==
    IF recent = file_id
    THEN IF Len(lst) > 0 THEN UpdateRecentFile(lst[1].id, t) ELSE NoMeta
    ELSE m

\* ---------------------------------------------------- concurrent requests
\* The requests served at the same time (Flask serves each in its own thread).
Procs == {"a", "b"}

\* A request in progress: pc is the next step of its handler, loaded the
\* document read from disk, file_data the local copy being updated, recent the
\* pointer read by delete_file, names the paths glob returned, lst the listing.
Request(op, file_id, body, pc) ==
    [op |-> op, id |-> file_id, body |-> body, pc |-> pc, status |-> 0,
     loaded |-> Absent, file_data |-> Absent, recent |-> NoId, names |-> {}, lst |-> <<>>]

NoProc == Request("none", NoId, EmptyBody, "done")

\* ------------------------------------------------------------- responses
Response(op, file_id, body, status, rid, doc, msg) ==
    [op |-> op, id |-> file_id, body |-> body, status |-> status, rid |-> rid,
     doc |-> doc, msg |-> msg, list |-> <<>>, ptr0 |-> GetRecentFileId(meta),
     n0 |-> Cardinality(ExistingIds(files))]

NoRequest ==
    [op |-> "none", id |-> NoId, body |-> EmptyBody, status |-> 0, rid |-> NoId,
     doc |-> Absent, msg |-> "", list |-> <<>>, ptr0 |-> NoId, n0 |-> 0]

\* The response is sent: the history moves on.
Respond(r) ==
    /\ last' = r
    /\ files0' = files
    /\ meta0' = meta
    /\ budget' = budget - 1
    /\ procs' = procs

\* ---------------------------------------------------------------- routes
\* GET /api/files
ListFiles ==
    /\ budget > 0
    /\ IF ListingRaises(files)
       THEN Respond(Response("list", NoId, EmptyBody, 500, NoId, Absent, "TypeError"))
       ELSE \E listed \in GetAllFiles(files) :
                Respond([Response("list", NoId, EmptyBody, 200, NoId, Absent, "") EXCEPT !.list = listed])
    /\ UNCHANGED <<files, meta, now, issued, deleted>>

\* POST /api/files
CreateFile(body) ==
    /\ budget > 0
    /\ IF ~body.valid
       THEN /\ Respond(Response("post", NoId, body, 500, NoId, Absent, "Bad Request"))
            /\ UNCHANGED <<files, meta, now, issued, deleted>>
       ELSE \E file_id \in FreshIds, t2 \in LaterClock(now) :
                LET name == IF body.hasName THEN body.name ELSE DefaultName
                    file_data == NewDocument(file_id, name, now)
                IN  /\ files' = [files EXCEPT ![file_id] = file_data]
                    /\ issued' = issued \cup {file_id}
                    /\ meta' = UpdateRecentFile(file_data.id, t2)
                    /\ now' = t2
                    /\ Respond(Response("post", NoId, body, 201, NoId, file_data, ""))
                    /\ UNCHANGED deleted

\* GET /api/files/<file_id>
GetFile(file_id) ==
    /\ budget > 0
    /\ IF ~Exists(files, file_id)
       THEN /\ Respond(Response("get", file_id, EmptyBody, 404, NoId, Absent, "File not found"))
            /\ UNCHANGED <<files, meta, now, issued, deleted>>
       ELSE IF files[file_id].kind = "corrupt"
       THEN /\ Respond(Response("get", file_id, EmptyBody, 500, NoId, Absent, "Invalid file format"))
            /\ UNCHANGED <<files, meta, now, issued, deleted>>
       ELSE /\ meta' = UpdateRecentFile(file_id, now)
            /\ Respond(Response("get", file_id, EmptyBody, 200, NoId, files[file_id], ""))
            /\ UNCHANGED <<files, now, issued, deleted>>

\* PUT /api/files/<file_id>
UpdateFile(file_id, body) ==
    /\ budget > 0
    /\ IF ~Exists(files, file_id)
       THEN /\ Respond(Response("put", file_id, body, 404, NoId, Absent, "File not found"))
            /\ UNCHANGED <<files, meta, now, issued, deleted>>
       ELSE IF files[file_id].kind = "corrupt"
       THEN /\ Respond(Response("put", file_id, body, 400, NoId, Absent, "Invalid JSON in request"))
            /\ UNCHANGED <<files, meta, now, issued, deleted>>
       ELSE IF ~body.valid
       THEN /\ Respond(Response("put", file_id, body, 500, NoId, Absent, "Bad Request"))
            /\ UNCHANGED <<files, meta, now, issued, deleted>>
       ELSE IF files[file_id].kind = "nonobj"
       THEN /\ Respond(Response("put", file_id, body, 500, NoId, Absent, "TypeError"))
            /\ UNCHANGED <<files, meta, now, issued, deleted>>
       ELSE LET file_data == MergeUpdate(files[file_id], body, now)
            IN  /\ files' = [files EXCEPT ![file_id] = file_data]
                /\ Respond(Response("put", file_id, body, 200, NoId, file_data, ""))
                /\ UNCHANGED <<meta, now, issued, deleted>>

\* DELETE /api/files/<file_id>
DeleteFile(file_id) ==
    /\ budget > 0
    /\ IF ~Exists(files, file_id)
       THEN /\ Respond(Response("delete", file_id, EmptyBody, 404, NoId, Absent, "File not found"))
            /\ UNCHANGED <<files, meta, now, issued, deleted>>
       ELSE LET recent_file_id == GetRecentFileId(meta)
                remaining == [files EXCEPT ![file_id] = Absent]
            IN  IF recent_file_id = file_id /\ ListingRaises(remaining)
                THEN /\ files' = remaining
                     /\ deleted' = deleted \cup {file_id}
                     /\ Respond(Response("delete", file_id, EmptyBody, 500, NoId, Absent, "TypeError"))
                     /\ UNCHANGED <<meta, now, issued>>
                ELSE
                \E remaining_files \in GetAllFiles(remaining) :
                    /\ files' = remaining
                    /\ meta' = DeleteCascade(meta, recent_file_id, file_id, remaining_files, now)
                    /\ deleted' = deleted \cup {file_id}
                    /\ Respond(Response("delete", file_id, EmptyBody, 200, NoId, Absent, ""))
                    /\ UNCHANGED <<now, issued>>

\* GET /api/recent
GetRecentFile ==
    /\ budget > 0
    /\ LET recent_file_id == GetRecentFileId(meta)
       IN  IF RecentIsValid(files, recent_file_id)
           THEN /\ Respond(Response("recent", NoId, EmptyBody, 200, recent_file_id, Absent, ""))
                /\ UNCHANGED <<files, meta, now, issued, deleted>>
           ELSE IF ListingRaises(files)
           THEN /\ Respond(Response("recent", NoId, EmptyBody, 500, NoId, Absent, "TypeError"))
                /\ UNCHANGED <<files, meta, now, issued, deleted>>
           ELSE \E existing_files \in GetAllFiles(files) :
                    IF Len(existing_files) > 0
                    THEN /\ meta' = UpdateRecentFile(existing_files[1].id, now)
                         /\ Respond(Response("recent", NoId, EmptyBody, 200,
                                             existing_files[1].id, Absent, ""))
                         /\ UNCHANGED <<files, now, issued, deleted>>
                    ELSE \E file_id \in FreshIds, t2 \in LaterClock(now) :
                             LET file_data == NewDocument(file_id, FirstName, now)
                             IN  /\ files' = [files EXCEPT ![file_id] = file_data]
                                 /\ issued' = issued \cup {file_id}
                                 /\ meta' = UpdateRecentFile(file_data.id, t2)
                                 /\ now' = t2
                                 /\ Respond(Response("recent", NoId, EmptyBody, 200,
                                                     file_data.id, file_data, ""))
                                 /\ UNCHANGED deleted

\* Time passes between requests.
Tick ==
    /\ now < MaxClock
    /\ now' = now + 1
    /\ UNCHANGED <<files, meta, issued, deleted, budget, last, files0, meta0, procs>>

Next ==
    \/ ListFiles
    \/ \E body \in PostBodies : CreateFile(body)
    \/ \E file_id \in Ids : GetFile(file_id)
    \/ \E file_id \in Ids, body \in PutBodies : UpdateFile(file_id, body)
    \/ \E file_id \in Ids : DeleteFile(file_id)
    \/ GetRecentFile
    \/ Tick

\* The server starts on an empty data directory.
Init ==
    /\ files = [i \in Ids |-> Absent]
    /\ meta = NoMeta
    /\ now = 0
    /\ issued = {}
    /\ deleted = {}
    /\ budget = MaxSteps
    /\ last = NoRequest
    /\ files0 = files
    /\ meta0 = meta
    /\ procs = [p \in Procs |-> NoProc]

Spec == Init /\ [][Next]_vars

\* The server starts on a data directory left by earlier runs: any documents,
\* unparsable files, and a pointer that is missing, unparsable, current or stale.
StoredFiles(i) ==
    {Absent, Corrupt} \cup {Doc(i, DefaultName, t, t, DefaultData) : t \in 0..InitClock}

StoredMetas == {NoMeta, CorruptMeta} \cup {UpdateRecentFile(i, InitClock) : i \in Ids}

\* Identifiers being interchangeable, the stored files are taken up to a
\* renaming: documents by `modified`, then unparsable files, then free names.
StoredRank(d) ==
    CASE d.kind = "doc" -> d.modified
      [] d.kind = "corrupt" -> InitClock + 1
      [] d.kind = "nonobj" -> InitClock + 2
      [] d.kind = "nofield" -> InitClock + 3
      [] OTHER -> InitClock + 4

InitStore ==
    /\ files \in {f \in [Ids -> UNION {StoredFiles(i) : i \in Ids}] :
                     /\ \A i \in Ids : f[i] \in StoredFiles(i)
                     /\ \A i, j \in Ids : i < j => StoredRank(f[i]) <= StoredRank(f[j])}
    /\ meta \in StoredMetas
    /\ now = InitClock
    /\ issued = ExistingIds(files) \cup ({GetRecentFileId(meta)} \ {NoId})
    /\ deleted = {}
    /\ budget = StoreSteps
    /\ last = NoRequest
    /\ files0 = files
    /\ meta0 = meta
    /\ procs = [p \in Procs |-> NoProc]

SpecStore == InitStore /\ [][Next]_vars

\* The same with files that parse but are no spreadsheet document: JSON that
\* is not an object, and objects without a 'name' key.
DamagedFiles(i) == StoredFiles(i) \cup {NonObject, MissingField(i, InitClock)}

InitDamaged ==
    /\ files \in {f \in [Ids -> UNION {DamagedFiles(i) : i \in Ids}] :
                     /\ \A i \in Ids : f[i] \in DamagedFiles(i)
                     /\ \A i, j \in Ids : i < j => StoredRank(f[i]) <= StoredRank(f[j])}
    /\ meta \in StoredMetas
    /\ now = InitClock
    /\ issued = ExistingIds(files) \cup ({GetRecentFileId(meta)} \ {NoId})
    /\ deleted = {}
    /\ budget = StoreSteps
    /\ last = NoRequest
    /\ files0 = files
    /\ meta0 = meta
    /\ procs = [p \in Procs |-> NoProc]

SpecDamaged == InitDamaged /\ [][Next]_vars

\* ------------------------------------------------ handlers, step by step
\* Each file system call of a handler is one step: exists(), the read of a
\* file, the write of a file, unlink(), glob(). Nothing is locked between the
\* steps of one request, so the steps of two requests interleave freely.
Finish(p, status) == procs' = [procs EXCEPT ![p].pc = "done", ![p].status = status]

Goto(p, pc) == procs' = [procs EXCEPT ![p].pc = pc]

\* get_file, update_file, delete_file: `if not file_path.exists()`.
CheckExists(p) ==
    /\ procs[p].pc = "check"
    /\ IF ~Exists(files, procs[p].id)
       THEN Finish(p, 404)
       ELSE Goto(p, IF procs[p].op = "delete" THEN "readptr" ELSE "load")
    /\ UNCHANGED <<files, meta, now, issued, deleted, budget, last, files0, meta0>>

\* get_file: open and json.load; a file removed since the check raises
\* FileNotFoundError, an unparsable one JSONDecodeError, both answered 500.
GetLoad(p) ==
    /\ procs[p].pc = "load"
    /\ procs[p].op = "get"
    /\ IF files[procs[p].id].kind \in {"absent", "corrupt"}
       THEN Finish(p, 500)
       ELSE procs' = [procs EXCEPT ![p].pc = "setptr", ![p].loaded = files[procs[p].id]]
    /\ UNCHANGED <<files, meta, now, issued, deleted, budget, last, files0, meta0>>

\* get_file: FileManager.update_recent_file(file_id), then 200.
GetSetPointer(p) ==
    /\ procs[p].pc = "setptr"
    /\ procs[p].op = "get"
    /\ meta' = UpdateRecentFile(procs[p].id, now)
    /\ Finish(p, 200)
    /\ UNCHANGED <<files, now, issued, deleted, budget, last, files0, meta0>>

\* update_file: open and json.load, request.json, then the merge on the local
\* copy; FileNotFoundError is answered 500, JSONDecodeError 400.
PutLoad(p) ==
    /\ procs[p].pc = "load"
    /\ procs[p].op = "put"
    /\ LET d == files[procs[p].id]
       IN  IF d.kind = "absent" THEN Finish(p, 500)
           ELSE IF d.kind = "corrupt" THEN Finish(p, 400)
           ELSE IF ~procs[p].body.valid \/ d.kind = "nonobj" THEN Finish(p, 500)
           ELSE procs' = [procs EXCEPT ![p].pc = "write", ![p].loaded = d,
                                       ![p].file_data = MergeUpdate(d, procs[p].body, now)]
    /\ UNCHANGED <<files, meta, now, issued, deleted, budget, last, files0, meta0>>

\* update_file: open(file_path, 'w') and json.dump of the local copy, then
\* 200; open(..., 'w') creates the file again if it was removed meanwhile.
PutWrite(p) ==
    /\ procs[p].pc = "write"
    /\ files' = [files EXCEPT ![procs[p].id] = procs[p].file_data]
    /\ Finish(p, 200)
    /\ UNCHANGED <<meta, now, issued, deleted, budget, last, files0, meta0>>

\* delete_file: recent_file_id = FileManager.get_recent_file_id().
DeleteReadPointer(p) ==
    /\ procs[p].pc = "readptr"
    /\ procs' = [procs EXCEPT ![p].pc = "unlink", ![p].recent = GetRecentFileId(meta)]
    /\ UNCHANGED <<files, meta, now, issued, deleted, budget, last, files0, meta0>>

\* delete_file: file_path.unlink(); FileNotFoundError (the file was removed
\* since the check) is answered 500. Without cascade the answer is 200.
DeleteUnlink(p) ==
    /\ procs[p].pc = "unlink"
    /\ IF ~Exists(files, procs[p].id)
       THEN /\ Finish(p, 500)
            /\ UNCHANGED <<files, deleted>>
       ELSE /\ files' = [files EXCEPT ![procs[p].id] = Absent]
            /\ deleted' = deleted \cup {procs[p].id}
            /\ IF procs[p].recent = procs[p].id THEN Goto(p, "glob") ELSE Finish(p, 200)
    /\ UNCHANGED <<meta, now, issued, budget, last, files0, meta0>>

\* get_all_files called by delete_file: FILES_DIR.glob('*.json').
DeleteGlob(p) ==
    /\ procs[p].pc = "glob"
    /\ procs' = [procs EXCEPT ![p].pc = "read", ![p].names = ExistingIds(files)]
    /\ UNCHANGED <<files, meta, now, issued, deleted, budget, last, files0, meta0>>

\* get_all_files called by delete_file: the files glob returned are opened
\* and sorted; one removed since the glob raises FileNotFoundError, which
\* get_all_files does not catch: 500.
DeleteRead(p) ==
    /\ procs[p].pc = "read"
    /\ LET globbed == [i \in Ids |-> IF i \in procs[p].names THEN files[i] ELSE Absent]
       IN  IF (\E i \in procs[p].names : ~Exists(files, i)) \/ ListingRaises(globbed)
           THEN Finish(p, 500)
           ELSE \E remaining_files \in GetAllFiles(globbed) :
                    procs' = [procs EXCEPT ![p].pc = "cascade", ![p].lst = remaining_files]
    /\ UNCHANGED <<files, meta, now, issued, deleted, budget, last, files0, meta0>>

\* delete_file: update_recent_file(remaining_files[0]['id']), or the
\* metadata file is removed; then 200.
DeleteSetPointer(p) ==
    /\ procs[p].pc = "cascade"
    /\ meta' = DeleteCascade(meta, procs[p].recent, procs[p].id, procs[p].lst, now)
    /\ Finish(p, 200)
    /\ UNCHANGED <<files, now, issued, deleted, budget, last, files0, meta0>>

\* GET /api/recent served while no other request is in progress.
RecentAlone ==
    /\ \A p \in Procs : procs[p].pc = "done"
    /\ GetRecentFile

NextRace ==
    \/ \E p \in Procs : CheckExists(p)
    \/ \E p \in Procs : GetLoad(p)
    \/ \E p \in Procs : GetSetPointer(p)
    \/ \E p \in Procs : PutLoad(p)
    \/ \E p \in Procs : PutWrite(p)
    \/ \E p \in Procs : DeleteReadPointer(p)
    \/ \E p \in Procs : DeleteUnlink(p)
    \/ \E p \in Procs : DeleteGlob(p)
    \/ \E p \in Procs : DeleteRead(p)
    \/ \E p \in Procs : DeleteSetPointer(p)
    \/ RecentAlone

\* The requests that race: a PUT carrying only `name`, a PUT carrying only
\* `data`, a GET and a DELETE, each on any identifier.
RaceRequests ==
    {Request("put", i, b, "check") :
         i \in Ids, b \in {Body(TRUE, TRUE, "Budget", FALSE, ""), Body(TRUE, FALSE, "", TRUE, "D1")}}
    \cup {Request(op, i, EmptyBody, "check") : op \in {"get", "delete"}, i \in Ids}

\* Two requests arrive together at a server whose data directory holds
\* documents and a pointer, current or stale, or none.
InitRace ==
    /\ files \in {f \in [Ids -> UNION {StoredFiles(i) \ {Corrupt} : i \in Ids}] :
                     /\ \A i \in Ids : f[i] \in StoredFiles(i)
                     /\ \A i, j \in Ids : i < j => StoredRank(f[i]) <= StoredRank(f[j])}
    /\ meta \in StoredMetas \ {CorruptMeta}
    /\ now = InitClock
    /\ issued = ExistingIds(files) \cup ({GetRecentFileId(meta)} \ {NoId})
    /\ deleted = {}
    /\ budget = StoreSteps
    /\ last = NoRequest
    /\ files0 = files
    /\ meta0 = meta
    /\ procs \in [Procs -> RaceRequests]

SpecRace == InitRace /\ [][NextRace]_vars

\* ------------------------------------------------------------------ C1
\* C1: from any store (any documents; pointer absent, current or stale) a
\* completed GET /api/recent answers 200 with the id of a document that exists
\* when it completes, and the pointer is then present and equals that id.
C1_RecentAlwaysValid ==
    last.op = "recent" =>
        /\ last.status = 200
        /\ last.rid \in Ids
        /\ files[last.rid].kind # "absent"
        /\ meta.kind = "ok"
        /\ meta.recentFileId = last.rid

\* GET /api/recent has repaired a pointer that named a deleted document.
C1_Witness ==
    /\ last.op = "recent"
    /\ last.ptr0 # NoId
    /\ files0[last.ptr0].kind = "absent"
    /\ files[last.rid].kind = "doc"

\* ------------------------------------------------------------------ C2
EmptyStore(fs, m) == ExistingIds(fs) = {} /\ m.kind = "absent"

\* GET /api/recent on a store with no documents and no pointer file.
C2_First ==
    (last.op = "recent" /\ EmptyStore(files0, meta0)) =>
        /\ last.status = 200
        /\ ExistingIds(files) = {last.rid}
        /\ files[last.rid].kind = "doc"
        /\ files[last.rid].name = FirstName

\* The GET /api/recent that follows it.
C2_Second ==
    (/\ last.op = "recent" /\ EmptyStore(files0, meta0)
     /\ last'.op = "recent" /\ budget' < budget) =>
        /\ last'.status = 200
        /\ last'.rid = last.rid
        /\ files' = files
        /\ Cardinality(ExistingIds(files')) = 1

\* C2: on a store with no documents and no pointer file, GET /api/recent
\* creates exactly one document, named "My First Spreadsheet", and returns its
\* id; the GET /api/recent after it returns the same id and creates nothing.
C2_BootstrapOnce == [][C2_First' /\ C2_Second]_vars

\* Two requests from the empty store, both GET /api/recent: the second found
\* the first one's document and changed nothing.
C2_Witness ==
    /\ budget = MaxSteps - 2
    /\ last.op = "recent"
    /\ files = files0
    /\ meta = meta0
    /\ ExistingIds(files) = {last.rid}
    /\ files[last.rid].name = FirstName

\* ------------------------------------------------------------------ C3
\* Document i is one of the most recently modified documents of fs.
MostRecentlyModified(fs, i) ==
    /\ i \in ExistingIds(fs)
    /\ \A j \in ExistingIds(fs) : fs[j].modified <= fs[i].modified

\* Document i has the greatest `modified` string of fs.
GreatestModifiedString(fs, i) ==
    /\ i \in ExistingIds(fs)
    /\ \A j \in ExistingIds(fs) : IsoKey(fs[j].modified) <= IsoKey(fs[i].modified)

\* The last request deleted the document the pointer named, and others remain.
DeletedThePointer ==
    /\ last.op = "delete"
    /\ last.status = 200
    /\ last.ptr0 = last.id
    /\ ExistingIds(files) # {}

C3_First ==
    DeletedThePointer =>
        /\ meta.kind = "ok"
        /\ MostRecentlyModified(files, meta.recentFileId)

C3_Second ==
    (DeletedThePointer /\ last'.op = "recent" /\ budget' < budget) =>
        /\ last'.status = 200
        /\ last'.rid # last.id
        /\ MostRecentlyModified(files, last'.rid)

\* C3: after DELETE of the document the pointer names, with other documents
\* remaining, the pointer names the most recently modified remaining document,
\* and the GET /api/recent that follows returns that document's id.
C3_PointerMovesToMostRecent == [][C3_First' /\ C3_Second]_vars

\* The same with `modified` compared as the stored strings, as the code sorts.
C3_PointerMovesToGreatestString ==
    [][/\ (DeletedThePointer => (meta.kind = "ok" /\ GreatestModifiedString(files, meta.recentFileId)))'
       /\ (DeletedThePointer /\ last'.op = "recent" /\ budget' < budget) =>
              (/\ last'.status = 200
               /\ last'.rid # last.id
               /\ last'.rid = meta.recentFileId
               /\ GreatestModifiedString(files, last'.rid))]_vars

\* ------------------------------------------------------------------ C4
\* The last request deleted the last remaining document.
DeletedTheLastDocument ==
    /\ last.op = "delete"
    /\ last.status = 200
    /\ ExistingIds(files) = {}

C4_First == DeletedTheLastDocument => meta.kind = "absent"

C4_Second ==
    (DeletedTheLastDocument /\ last'.op = "recent" /\ budget' < budget) =>
        /\ last'.status = 200
        /\ ExistingIds(files') = {last'.rid}
        /\ files'[last'.rid].kind = "doc"
        /\ files'[last'.rid].name = FirstName
        /\ last'.rid \notin deleted

\* C4: in a history of requests from the empty store, deleting the last
\* remaining document leaves no pointer file, and the GET /api/recent after it
\* creates a new document named "My First Spreadsheet" and returns its id.
C4_LastDeleteClearsPointer == [][C4_First' /\ C4_Second]_vars

\* Three requests from the empty store: a create, the delete of that document,
\* and a GET /api/recent that has created the next first document.
C4_Witness ==
    /\ budget = MaxSteps - 3
    /\ last.op = "recent"
    /\ last.n0 = 0
    /\ deleted # {}
    /\ meta0.kind = "absent"
    /\ files[last.rid].name = FirstName

\* ------------------------------------------------------------------ C5
\* The last request was a PUT that updated document last.id.
Updated == last.op = "put" /\ last.status = 200

\* C5: a successful PUT merges: `name` changes only if the body has a name and
\* `data` only if the body has data; `id` and `created` never change; no other
\* document changes (only `modified` may differ otherwise).
C5_MergeUpdate ==
    Updated =>
        /\ \A j \in Ids \ {last.id} : files[j] = files0[j]
        /\ files[last.id].kind = "doc"
        /\ files[last.id].id = files0[last.id].id
        /\ files[last.id].created = files0[last.id].created
        /\ files[last.id].name = (IF last.body.hasName THEN last.body.name ELSE files0[last.id].name)
        /\ files[last.id].data = (IF last.body.hasData THEN last.body.data ELSE files0[last.id].data)

\* A PUT with only a name has renamed a document whose data is not the default.
C5_Witness ==
    /\ Updated
    /\ last.body.hasName /\ ~last.body.hasData
    /\ files0[last.id].data # DefaultData
    /\ files[last.id].data = files0[last.id].data
    /\ files[last.id].name # files0[last.id].name

\* ------------------------------------------------------------------ C6
\* The document a successful POST, GET or PUT created, read or updated.
Touched == IF last.op = "post" THEN last.doc.id ELSE last.id

PointerIs(i) == meta.kind = "ok" /\ meta.recentFileId = i

\* C6 as stated: after any successful POST /api/files, GET /api/files/{id} or
\* PUT /api/files/{id} the pointer names the document of that request.
C6_PointerFollowsEveryAccess ==
    (last.op \in {"post", "get", "put"} /\ last.status \in {200, 201}) => PointerIs(Touched)

\* C6 amended: after a successful POST or GET /api/files/{id} the pointer names
\* the document of that request; a successful PUT leaves the pointer as it was.
C6_PointerFollowsCreateAndRead ==
    /\ (last.op \in {"post", "get"} /\ last.status \in {200, 201}) => PointerIs(Touched)
    /\ Updated => meta = meta0

\* A PUT has updated a document other than the one the pointer names.
C6_Witness ==
    /\ Updated
    /\ meta.kind = "ok"
    /\ meta.recentFileId # last.id
    /\ files[meta.recentFileId].kind = "doc"

\* ------------------------------------------------------------------ C7
\* C7: a PUT, whatever its outcome, leaves the metadata file untouched, and so
\* does a DELETE of a document other than the one the pointer names.
C7_PointerNotWrittenByUpdate ==
    /\ last.op = "put" => meta = meta0
    /\ (last.op = "delete" /\ last.ptr0 # last.id) => meta = meta0

\* A DELETE has removed a document while the pointer named another one.
C7_Witness ==
    /\ last.op = "delete"
    /\ last.status = 200
    /\ last.ptr0 # NoId
    /\ last.ptr0 # last.id
    /\ Readable(files) # {}

\* ------------------------------------------------------------------ C8
\* C8: DELETE of an id with no file answers 404 and changes neither the
\* documents nor the pointer; DELETE of an existing id answers 200 and removes
\* that file and no other; a deleted id never has a file again, so every later
\* GET /api/files/{id} for it answers 404.
C8_DeleteThenNotFound ==
    /\ (last.op = "delete" /\ ~Exists(files0, last.id)) =>
           (last.status = 404 /\ files = files0 /\ meta = meta0)
    /\ (last.op = "delete" /\ Exists(files0, last.id)) =>
           (last.status = 200 /\ files = [files0 EXCEPT ![last.id] = Absent])
    /\ \A i \in deleted : files[i].kind = "absent"
    /\ (last.op = "get" /\ last.id \in deleted) => last.status = 404

\* A GET for a deleted id, made after a later document was created.
C8_Witness ==
    /\ last.op = "get"
    /\ last.id \in deleted
    /\ last.status = 404
    /\ ExistingIds(files) # {}

\* ------------------------------------------------------------------ C9
\* C9: a file that exists but does not parse is answered with 500 by GET and
\* by PUT /api/files/{id}, never 404 or 400.
C9_CorruptIs500 ==
    (last.op \in {"get", "put"} /\ files0[last.id].kind = "corrupt") => last.status = 500

\* ----------------------------------------------------------------- C10
\* The last request was a POST that created last.doc.
Created == last.op = "post" /\ last.status = 201

C10_First ==
    (last.op = "post" /\ last.body.valid) =>
        /\ last.status = 201
        /\ last.doc.id \in Ids
        /\ ~Exists(files0, last.doc.id)
        /\ last.doc.id \notin deleted
        /\ files = [files0 EXCEPT ![last.doc.id] = last.doc]
        /\ last.doc.kind = "doc"
        /\ last.doc.created = last.doc.modified
        /\ last.doc.name = (IF last.body.hasName THEN last.body.name ELSE DefaultName)
        /\ last.doc.data = DefaultData
        /\ PointerIs(last.doc.id)

C10_Second ==
    (Created /\ last'.op = "get" /\ last'.id = last.doc.id /\ budget' < budget) =>
        /\ last'.status = 200
        /\ last'.doc = last.doc
        /\ files' = files

\* C10: a POST creates one document under an id no document ever had, with
\* created = modified, the given or default name and the default data, sets
\* the pointer to it and answers 201; the GET /api/files/{id} after it answers
\* 200 with the same document and changes no document.
C10_CreateThenGet == [][C10_First' /\ C10_Second]_vars

\* Two requests from the empty store: a POST with a name, and the GET that
\* reads its document back.
C10_Witness ==
    /\ budget = MaxSteps - 2
    /\ last.op = "get"
    /\ last.status = 200
    /\ last.doc.name = "Budget"
    /\ files = files0

\* ----------------------------------------------------------------- C11
\* The last request was a GET /api/files that answered with a listing.
Listed == last.op = "list" /\ last.status = 200

\* The listing holds exactly one entry for each stored document.
OneEntryPerDocument ==
    /\ Len(last.list) = Cardinality(ExistingIds(files))
    /\ {last.list[j] : j \in 1..Len(last.list)} = {ListEntry(files[i]) : i \in ExistingIds(files)}

C12_TimestampsOrdered ==
    /\ \A i \in Ids : files[i].kind = "doc" => files[i].modified >= files[i].created
    /\ \A i \in Ids : (files0[i].kind = "doc" /\ files[i].kind = "doc") =>
           (files[i].id = files0[i].id /\ files[i].created = files0[i].created)
    /\ Updated => files[last.id].modified >= files0[last.id].modified

\* A PUT made after the clock advanced: `modified` is now later than `created`.
C12_Witness ==
    /\ Updated
    /\ files[last.id].modified > files0[last.id].modified
    /\ files[last.id].modified > files[last.id].created

\* ----------------------------------------------------------------- C13
\* C13: with stored entries that do not parse or lack a required field, or
\* that hold JSON that is no object, GET /api/files still answers 200 and
\* lists exactly the well-formed documents.
C13_ListSkipsBadEntries ==
    last.op = "list" =>
        /\ last.status = 200
        /\ Len(last.list) = Cardinality(Readable(files))
        /\ {last.list[j] : j \in 1..Len(last.list)} = {ListEntry(files[i]) : i \in Readable(files)}

\* The same for the entries get_all_files does skip: unparsable files and
\* objects with a missing key.
C13_ListSkipsUnparsableAndIncomplete ==
    (last.op = "list" /\ ~ListingRaises(files)) =>
        /\ last.status = 200
        /\ Len(last.list) = Cardinality(Readable(files))
        /\ {last.list[j] : j \in 1..Len(last.list)} = {ListEntry(files[i]) : i \in Readable(files)}

\* ----------------------------------------------------------------- C14
\* C14: a PUT /api/files/{id} on an existing document whose request body is
\* not valid JSON answers 400 and leaves the stored document and the recent
\* pointer unchanged.
C14_MalformedPutIs400 ==
    (last.op = "put" /\ files0[last.id].kind = "doc" /\ ~last.body.valid) =>
        /\ last.status = 400
        /\ files = files0
        /\ meta = meta0

\* What the PUT with a malformed body does leave alone: documents and pointer.
C14_MalformedPutChangesNothing ==
    (last.op = "put" /\ files0[last.id].kind = "doc" /\ ~last.body.valid) =>
        /\ last.status = 500
        /\ files = files0
        /\ meta = meta0

\* ----------------------------------------------------------------- C15
\* C15: when the pointer is present and names an existing document, GET
\* /api/recent returns that id and changes nothing: no document is created or
\* modified and the pointer record, lastAccessed included, is not rewritten.
\* GET /api/recent creates a document only when the listing is empty, and
\* then exactly one.
C15_RecentReadsOnly ==
    /\ (last.op = "recent" /\ last.ptr0 # NoId /\ Exists(files0, last.ptr0)) =>
           /\ last.status = 200
           /\ last.rid = last.ptr0
           /\ files = files0
           /\ meta = meta0
    /\ (last.op = "recent" /\ files # files0) =>
           /\ Readable(files0) = {}
           /\ \E i \in Ids : /\ ~Exists(files0, i)
                             /\ files = [files0 EXCEPT ![i] = NewDocument(i, FirstName, files[i].created)]

\* GET /api/recent has answered from a valid pointer at a later clock reading
\* than the one the pointer record carries.
C15_Witness ==
    /\ last.op = "recent"
    /\ last.ptr0 # NoId
    /\ Exists(files0, last.ptr0)
    /\ now > meta.lastAccessed
    /\ Readable(files) # {}

\* ----------------------------------------------------------------- C16
\* C16: with one request at a time from an empty store, in every state
\* between requests the recent pointer, if present, names a document that
\* currently exists.
C16_PointerNamesExistingDocument ==
    meta.kind = "ok" => Exists(files, meta.recentFileId)

\* The document the pointer named has been deleted and the cascade has moved
\* the pointer to a remaining document.
C16_Witness ==
    /\ DeletedThePointer
    /\ meta.kind = "ok"
    /\ meta.recentFileId # last.id
    /\ Exists(files, meta.recentFileId)

\* ----------------------------------------------------------------- C17
\* C17: GET /api/files/{id} for an id with no backing file answers 404 and
\* writes nothing (documents and pointer unchanged); on success it sets the
\* pointer to exactly the requested id and modifies no stored document.
C17_GetFileEffects ==
    /\ (last.op = "get" /\ ~Exists(files0, last.id)) =>
           /\ last.status = 404
           /\ files = files0
           /\ meta = meta0
    /\ (last.op = "get" /\ last.status = 200) =>
           /\ Exists(files0, last.id)
           /\ PointerIs(last.id)
           /\ files = files0

\* A successful GET of a document the pointer did not name before.
C17_Witness ==
    /\ last.op = "get"
    /\ last.status = 200
    /\ last.ptr0 # last.id
    /\ meta # meta0

\* ----------------------------------------------------------------- C18
\* Two PUT requests on the same document, "a" carrying only `name` and "b"
\* only `data`, have both answered 200.
BothUpdated ==
    /\ \A p \in Procs : procs[p].op = "put" /\ procs[p].pc = "done" /\ procs[p].status = 200
    /\ procs["a"].id = procs["b"].id
    /\ procs["a"].body.hasName
    /\ procs["b"].body.hasData

\* The stored document reflects only one of the two changes.
LostUpdate ==
    LET d == files[procs["a"].id]
    IN  ~(d.name = procs["a"].body.name /\ d.data = procs["b"].body.data)

\* C18: when two PUTs on the same existing document, one carrying only `name`
\* and the other only `data`, have both answered 200, the stored document
\* reflects at least one of the two changes, and it reflects only one (a lost
\* update, which does occur) exactly when their read-modify-write steps
\* interleaved, that is when both loaded the document before either wrote.
C18_LostUpdateOnlyWhenInterleaved ==
    BothUpdated =>
        LET d == files[procs["a"].id]
        IN  /\ d.kind = "doc"
            /\ d.name = procs["a"].body.name \/ d.data = procs["b"].body.data
            /\ LostUpdate <=> procs["a"].loaded = procs["b"].loaded

\* Both PUTs answered 200 and the stored document has lost one of the changes.
C18_Witness ==
    /\ BothUpdated
    /\ LostUpdate

\* ----------------------------------------------------------------- C19
\* A DELETE and a GET of the same document have both answered 200.
DeleteRacedGet ==
    \E p, q \in Procs :
        /\ procs[p].op = "delete" /\ procs[p].pc = "done" /\ procs[p].status = 200
        /\ procs[q].op = "get" /\ procs[q].pc = "done" /\ procs[q].status = 200
        /\ procs[p].id = procs[q].id

\* The pointer names a document that no longer exists.
StalePointer(fs, m) == m.kind = "ok" /\ ~Exists(fs, m.recentFileId)

\* C19: after a DELETE has interleaved with a GET of the same document (or
\* with another request writing the pointer) the pointer can name a document
\* that no longer exists; from every such state GET /api/recent executed
\* alone answers 200 and leaves the pointer on an existing document.
C19_RecentRepairsStalePointer ==
    (last.op = "recent" /\ StalePointer(files0, meta0)) =>
        /\ last.status = 200
        /\ PointerIs(last.rid)
        /\ Exists(files, last.rid)
        /\ last.rid # meta0.recentFileId

\* GET /api/recent has run alone on the stale pointer that a DELETE racing
\* with a GET of the same document left behind.
C19_Witness ==
    /\ last.op = "recent"
    /\ StalePointer(files0, meta0)
    /\ DeleteRacedGet
    /\ meta0.recentFileId \in deleted
    /\ \E p \in Procs : procs[p].op = "get" /\ procs[p].id = meta0.recentFileId

\* ----------------------------------------------------------------- C20
\* C20: in every state reachable through API requests each stored document's
\* `id` equals the identifier it is stored under; a PUT whose body carries
\* id, created or modified cannot change the document's `id` or `created`,
\* and `modified` is the server's clock reading, not the body's value.
C20_IdIsStorageKey ==
    /\ \A i \in Ids : files[i].kind = "doc" => files[i].id = i
    /\ (Updated /\ last.body.hasExtra) =>
           /\ files[last.id].id = files0[last.id].id
           /\ files[last.id].created = files0[last.id].created
           /\ files[last.id].modified <= now
           /\ files[last.id].modified # last.body.modified

\* A PUT whose body carries id, created and modified has answered 200.
C20_Witness ==
    /\ Updated
    /\ last.body.hasExtra
    /\ last.body.id # last.id
    /\ files[last.id].name = last.body.name

====
